---------------------------- MODULE Spec2Model ----------------------------
(***************************************************************************)
(* InfraMap ETL: the two bridge-ingestion scripts (offset pagination and   *)
(* spatial tiling) that fetch features from the BASt feature service,      *)
(* normalise them, deduplicate by bauwerksnummer and upsert them in        *)
(* batches into the destination store, then refresh the aggregates.        *)
(*                                                                         *)
(* One run of one script is one behaviour: Init picks the script           *)
(* (variant), the environment and the content of the remote source; every  *)
(* await of the script is one position of pc.  Responses have the shape    *)
(* of the scripts' BastResponse / BastFeature interfaces, except that a    *)
(* feature's geometry may be missing (the scripts test for it); a row      *)
(* carries the fields that decide control flow and the summary.            *)
(*                                                                         *)
(* The front end is modelled next to the scripts: the useBridges hook      *)
(* (HookSpec) and the progressive bridge loading of the DataProvider       *)
(* (StreamSpec).  Their variables rest while a script runs.                *)
(***************************************************************************)
EXTENDS Integers, Sequences, FiniteSets

VARIABLES
    variant,          \* "pagination" | "tiling": which script runs
    env,              \* [url, key]: is SUPABASE_URL / SUPABASE_SERVICE_KEY set (non-empty)
    src,              \* the remote source: its ordered list of features
    pc,               \* position of the script
    startIndex,       \* pagination: offset of the next page
    totalFeatures,    \* pagination: <<>> (null) or <<n>>
    pagesWithNoData,  \* pagination: consecutive empty pages
    xi, yi,           \* tiling: grid cursor
    allBridges,       \* pagination: array of rows; tiling: Map in insertion order
    unique,           \* the array handed to upsertBridges
    i,                \* upsertBridges: loop index
    inserted,         \* upsertBridges: rows counted as upserted
    store,            \* destination table bruecken, rows keyed by bauwerksnummer
    exitCode,         \* <<>> while running, <<0>> or <<1>> once the process ended
    summary,          \* <<>> or <<the statistics>> once the summary is printed
    attempts,         \* history: requests issued so far for the current unit
    requested,        \* history: some source request has been issued
    seen,             \* history: features received in successful responses, in order
    batchLog,         \* history: upsert calls, [at, n, ok] in call order
    refreshLog,       \* history: refresh calls, TRUE when the call returned no error
    lastOut,          \* history: outcome of the source request that has just returned,
                      \* "none" before the first request and once a delay has elapsed
    emptyStreak,      \* history: successful responses in a row that carried no feature
    prevRun,          \* history: <<>> in a first run, else <<[unique, store, ok]>>: what the
                      \* run before handed to upsertBridges, the table it left, and
                      \* whether all its batches succeeded
    tileLog,          \* history: the grid cells of the first requests, in traversal order
    mounted,          \* useBridges: the component using the hook is mounted
    filters,          \* useBridges: the filters of the latest render
    effects,          \* useBridges: the effect runs so far, [filters, cancelled, answered]
    state,            \* useBridges: the hook's state, [data, loading, error]
    streamPc,         \* DataProvider: position of streamBridges
    cancelled,        \* DataProvider: the effect's 'cancelled' flag
    from,             \* DataProvider: streamBridges' row offset
    hasMore,          \* DataProvider: streamBridges' loop flag
    allFeatures,      \* DataProvider: number of features collected so far
    bridgeProgress,   \* DataProvider: [loaded, done]
    tableRows         \* DataProvider: number of rows the table bruecken serves

vars == <<variant, env, src, pc, startIndex, totalFeatures, pagesWithNoData, xi, yi,
          allBridges, unique, i, inserted, store, exitCode, summary,
          attempts, requested, seen, batchLog, refreshLog, lastOut, emptyStreak,
          prevRun, tileLog, mounted, filters, effects, state,
          streamPc, cancelled, from, hasMore, allFeatures, bridgeProgress, tableRows>>

etlVars == <<variant, env, src, pc, startIndex, totalFeatures, pagesWithNoData, xi, yi,
             allBridges, unique, i, inserted, store, exitCode, summary,
             attempts, requested, seen, batchLog, refreshLog, lastOut, emptyStreak,
             prevRun, tileLog>>
hookVars == <<mounted, filters, effects, state>>
streamVars == <<streamPc, cancelled, from, hasMore, allFeatures, bridgeProgress, tableRows>>

(***************************************************************************)
(* Bounds of the model.                                                    *)
(***************************************************************************)
\* longest source list
MaxFeatures == 3
\* most features the server puts in one page (it may send fewer than PAGE_SIZE)
MaxPage == 2
\* the request counter of a unit saturates here
MaxAttempts == 3
\* UPSERT_BATCH_SIZE is 500 in the scripts; scaled down so that several batches occur
UPSERT_BATCH_SIZE == 1
\* TILE_SIZE is 50000 in the tiling script; scaled up to a 2 x 3 grid
TILE_SIZE == 400000
\* PAGE_SIZE is 1000 in the pagination script; scaled down so that an offset advanced
\* past an empty page can still lie inside the source
PAGE_SIZE == 2
\* longest source list of a run in the specification of repeated runs
MaxRunFeatures == 2
\* largest 'bl' code the normalised features carry (the table ends at 16)
MaxBl == 17
\* useBridges: the filter values a render may carry, and the effect runs of a behaviour
MaxFilters == 2
MaxEffects == 3
\* DataProvider: the most rows the table bruecken serves
MaxRows == 5

(***************************************************************************)
(* Program constants.                                                      *)
(***************************************************************************)
\* "if (pagesWithNoData >= 3) break"
EMPTY_PAGE_LIMIT == 3

GERMANY_BBOX_UTM32 == [minX |-> 280000, maxX |-> 920000, minY |-> 5230000, maxY |-> 6110000]

(***************************************************************************)
(* Values.  null is <<>>, a present value v is <<v>>.                      *)
(***************************************************************************)
NULL == <<>>
Some(v) == <<v>>

\* An attribute value that is present and is no number (a text such as "n/a").
TEXT == <<"n", "a">>

\* NaN, the result of parsing something that is no number
NAN == <<>>

\* parseFloat(String(v ?? '')): <<n>> for a numeric value, NaN for a missing or textual one
ParseFloat(v) == IF Len(v) = 1 THEN v ELSE NAN

\* Number(v ?? 0): a missing value counts as 0, a text gives NaN
NumberOrZero(v) == IF v = NULL THEN Some(0) ELSE IF Len(v) = 1 THEN v ELSE NAN

\* props[name]: the attribute, undefined (<<>>) when the feature carries none
Attr(f, name) == IF name \in DOMAIN f THEN f[name] ELSE NULL

\* Number(v): NaN for an undefined or textual value
NumberOf(v) == IF Len(v) = 1 THEN v ELSE NAN

\* parseInt(String(v ?? ''), 10): the values of the model are whole numbers
ParseInt(v) == IF Len(v) = 1 THEN v ELSE NAN

\* A coordinate that is no number (a text in the geometry), and the NaN that
\* arithmetic on it yields: a value outside every range the model uses, of
\* which no comparison holds.
NOT_A_NUMBER == 999999999

\* a < b in double arithmetic: false as soon as one side is NaN
Lt(a, b) == a # NOT_A_NUMBER /\ b # NOT_A_NUMBER /\ a < b

Min(a, b) == IF a <= b THEN a ELSE b

\* Math.ceil(a / b) for a >= 0, b > 0
Ceil(a, b) == (a + b - 1) \div b

Range(s) == {s[j] : j \in DOMAIN s}

\* Projected coordinate pairs used by the source's features.
P_IN   == <<500000, 5500000>>
P_EDGE == <<680000, 5700000>>
P_OUT  == <<920000, 6100000>>
\* A geometry whose two coordinates are texts.
P_NAN  == <<NOT_A_NUMBER, NOT_A_NUMBER>>

\* Pairs whose conversion lies one millionth of a degree below, on and above each
\* bound of the plausibility test: latitude 47 and 55.5, longitude 5 and 15.5.
P_LAT47  == << <<599783, 5206000>>, <<599776, 5206000>>, <<599770, 5206000>> >>
P_LAT555 == << <<599831, 6151568>>, <<599826, 6151568>>, <<599821, 6151568>> >>
P_LNG5   == << <<216256, 5599951>>, <<216256, 5599950>>, <<216256, 5599948>> >>
P_LNG155 == << <<962062, 5600033>>, <<962062, 5600034>>, <<962063, 5600023>> >>

(* utm32ToWgs84 on the coordinate pairs above: the script's closed-form     *)
(* inverse transverse Mercator evaluated in double precision, the result    *)
(* (rounded by the script to six decimals) held in millionths of a degree.  *)
utm32ToWgs84(c) ==
    CASE c[1] = NOT_A_NUMBER \/ c[2] = NOT_A_NUMBER ->
              [lat |-> NOT_A_NUMBER, lng |-> NOT_A_NUMBER]
      [] c = P_IN   -> [lat |-> 49652543, lng |-> 9000000]
      [] c = P_EDGE -> [lat |-> 51422586, lng |-> 11588996]
      [] c = P_OUT  -> [lat |-> 54870059, lng |-> 15549431]
      [] c = P_LAT47[1]  -> [lat |-> 46999999, lng |-> 10312500]
      [] c = P_LAT47[2]  -> [lat |-> 47000000, lng |-> 10312408]
      [] c = P_LAT47[3]  -> [lat |-> 47000001, lng |-> 10312329]
      [] c = P_LAT555[1] -> [lat |-> 55499999, lng |-> 10580411]
      [] c = P_LAT555[2] -> [lat |-> 55500000, lng |-> 10580332]
      [] c = P_LAT555[3] -> [lat |-> 55500001, lng |-> 10580253]
      [] c = P_LNG5[1]   -> [lat |-> 50482726, lng |-> 4999999]
      [] c = P_LNG5[2]   -> [lat |-> 50482717, lng |-> 5000000]
      [] c = P_LNG5[3]   -> [lat |-> 50482699, lng |-> 5000001]
      [] c = P_LNG155[1] -> [lat |-> 50370332, lng |-> 15499999]
      [] c = P_LNG155[2] -> [lat |-> 50370341, lng |-> 15500000]
      [] c = P_LNG155[3] -> [lat |-> 50370242, lng |-> 15500001]

\* String.prototype.trim on the identifiers the source uses
Trim(s) == IF s = " " THEN "" ELSE IF s = " A" THEN "A" ELSE s

\* String(v ?? '')
StrOrEmpty(v) == IF v = NULL THEN "" ELSE v[1]

\* Mutant of Implausible: the bounds themselves are rejected.
Implausible_OpenBounds(p) ==
    p.lat <= 47000000 \/ p.lat >= 55500000 \/ p.lng <= 5000000 \/ p.lng >= 15500000

\* lat < 47 || lat > 55.5 || lng < 5 || lng > 15.5
Implausible(p) ==
    Lt(p.lat, 47000000) \/ Lt(55500000, p.lat) \/ Lt(p.lng, 5000000) \/ Lt(15500000, p.lng)

\* Bundesland code -> name
BL_MAP ==
    << "Schleswig-Holstein", "Hamburg", "Niedersachsen", "Bremen",
       "Nordrhein-Westfalen", "Hessen", "Rheinland-Pfalz", "Baden-Württemberg",
       "Bayern", "Saarland", "Berlin", "Brandenburg",
       "Mecklenburg-Vorpommern", "Sachsen", "Sachsen-Anhalt", "Thüringen" >>

\* Mutant of Bundesland: the table is read as a zero-based array.
Bundesland_ZeroBased(v) ==
    LET blCode == NumberOrZero(v) IN
    IF blCode # NAN /\ blCode[1] + 1 \in DOMAIN BL_MAP THEN Some(BL_MAP[blCode[1] + 1]) ELSE NULL

\* "const blCode = Number(props['bl'] ?? 0)" and "BL_MAP[blCode] ?? null"
Bundesland(v) ==
    LET blCode == NumberOrZero(v) IN
    IF blCode # NAN /\ blCode[1] \in DOMAIN BL_MAP THEN Some(BL_MAP[blCode[1]]) ELSE NULL

\* "note > 0 ? note : null" (NaN > 0 is false)
PositiveOrNull(note) == IF note # NAN /\ note[1] > 0 THEN note ELSE NULL

\* "parseFloat(..) || null": NaN and 0 are falsy, any other number is kept
TruthyOrNull(note) == IF note # NAN /\ note[1] # 0 THEN note ELSE NULL

\* "String(v ?? '').trim() || null"
TrimmedOrNull(v) == IF Trim(StrOrEmpty(v)) = "" THEN NULL ELSE Some(Trim(StrOrEmpty(v)))

\* "String(v ?? '') || null"
StringOrNull(v) == IF StrOrEmpty(v) = "" THEN NULL ELSE Some(StrOrEmpty(v))

(* transformFeature of the pagination script.  zn is the source's zn92019   *)
(* in tenths, bl its 'bl'; 'yearbuild', 'state', 'length', 'width' and      *)
(* 'capacityindex' are read where the feature carries them.  The result is  *)
(* <<>> (null) or <<row>>.                                                  *)
transformFeature(f) ==
    IF Len(f.coords) < 2 THEN NULL
    ELSE LET bwnr == Trim(StrOrEmpty(f.bwnr)) IN
         IF bwnr = "" THEN NULL
         ELSE LET p == utm32ToWgs84(f.coords) IN
              IF Implausible(p) THEN NULL
              ELSE Some([bauwerksnummer |-> bwnr,
                         zustandsnote |-> PositiveOrNull(ParseFloat(f.zn)),
                         baujahr |-> TruthyOrNull(NumberOf(Attr(f, "yearbuild"))),
                         landkreis |-> TrimmedOrNull(Attr(f, "state")),
                         bundesland |-> Bundesland(f.bl),
                         traglastindex |-> NULL,
                         laenge |-> TruthyOrNull(NumberOf(Attr(f, "length"))),
                         breite |-> TruthyOrNull(NumberOf(Attr(f, "width"))),
                         lat |-> p.lat, lng |-> p.lng])

(* transformFeature of the tiling script: no trim, parseFloat(..) || null.  *)
(* bundesland is "String(props['bundesland'] ?? '') || null"; the features  *)
(* of the model carry no 'bundesland' attribute.                            *)
transformFeatureTile(f) ==
    IF Len(f.coords) < 2 THEN NULL
    ELSE LET bwnr == StrOrEmpty(f.bwnr) IN
         IF bwnr = "" THEN NULL
         ELSE LET p == utm32ToWgs84(f.coords) IN
              IF Implausible(p) THEN NULL
              ELSE Some([bauwerksnummer |-> bwnr,
                         zustandsnote |-> TruthyOrNull(ParseFloat(f.zn)),
                         baujahr |-> TruthyOrNull(ParseInt(Attr(f, "yearbuild"))),
                         landkreis |-> StringOrNull(Attr(f, "state")),
                         bundesland |-> NULL,
                         traglastindex |-> TruthyOrNull(ParseFloat(Attr(f, "capacityindex"))),
                         laenge |-> TruthyOrNull(ParseFloat(Attr(f, "length"))),
                         breite |-> TruthyOrNull(ParseFloat(Attr(f, "width"))),
                         lat |-> p.lat, lng |-> p.lng])

Transform(v, f) == IF v = "pagination" THEN transformFeature(f) ELSE transformFeatureTile(f)

\* Features the source may hold.
FeatureSet ==
    { [bwnr |-> Some("A"), coords |-> P_IN,   zn |-> Some(15), bl |-> Some(9),
         state |-> Some("K1")],
      [bwnr |-> Some("A"), coords |-> P_EDGE, zn |-> Some(30), bl |-> Some(15),
         state |-> Some("K2")],
      [bwnr |-> Some("B"), coords |-> P_EDGE, zn |-> NULL,     bl |-> NULL],
      [bwnr |-> Some("C"), coords |-> P_IN,   zn |-> Some(0),  bl |-> Some(17),
         state |-> Some("K1")],
      [bwnr |-> NULL,      coords |-> P_IN,   zn |-> Some(15), bl |-> Some(9)],
      [bwnr |-> Some(" "), coords |-> P_IN,   zn |-> Some(15), bl |-> Some(9)],
      [bwnr |-> Some("B"), coords |-> P_OUT,  zn |-> Some(15), bl |-> Some(12)],
      [bwnr |-> Some("C"), coords |-> <<>>,   zn |-> Some(15), bl |-> Some(9)] }

SeqsUpTo(S, n) == UNION {[1..m -> S] : m \in 0..n}

(***************************************************************************)
(* Deduplication: a JavaScript Map keyed by bauwerksnummer, held as the    *)
(* sequence of its values in insertion order.                              *)
(***************************************************************************)
\* Mutant of MapSet: an existing key keeps its first value.
MapSet_KeepFirst(m, row) ==
    IF \E j \in DOMAIN m : m[j].bauwerksnummer = row.bauwerksnummer
    THEN m
    ELSE Append(m, row)

MapSet(m, row) ==
    IF \E j \in DOMAIN m : m[j].bauwerksnummer = row.bauwerksnummer
    THEN [j \in DOMAIN m |-> IF m[j].bauwerksnummer = row.bauwerksnummer THEN row ELSE m[j]]
    ELSE Append(m, row)

\* "for (const f of features) { const row = transformFeature(f); if (row) allBridges.push(row); }"
RECURSIVE PushRows(_, _)
PushRows(arr, fs) ==
    IF fs = <<>> THEN arr
    ELSE LET row == transformFeature(Head(fs)) IN
         PushRows(IF row # NULL THEN Append(arr, row[1]) ELSE arr, Tail(fs))

\* "for (const f of features) { const row = transformFeature(f); if (row) allBridges.set(row.bauwerksnummer, row); }"
RECURSIVE SetRows(_, _)
SetRows(m, fs) ==
    IF fs = <<>> THEN m
    ELSE LET row == transformFeatureTile(Head(fs)) IN
         SetRows(IF row # NULL THEN MapSet(m, row[1]) ELSE m, Tail(fs))

\* "for (const b of allBridges) deduped.set(b.bauwerksnummer, b); Array.from(deduped.values())"
RECURSIVE Dedupe(_, _)
Dedupe(m, arr) ==
    IF arr = <<>> THEN m ELSE Dedupe(MapSet(m, Head(arr)), Tail(arr))

(***************************************************************************)
(* The remote source.                                                      *)
(***************************************************************************)
\* The page the source serves at offset s when it sends k features.
Page(s, k) == SubSeq(src, s + 1, s + k)

\* How many features a successful page response at offset s may carry.
PageLens(s) ==
    IF s >= Len(src) THEN {0} ELSE 1..Min(MaxPage, Len(src) - s)

tilesX == Ceil(GERMANY_BBOX_UTM32.maxX - GERMANY_BBOX_UTM32.minX, TILE_SIZE)
tilesY == Ceil(GERMANY_BBOX_UTM32.maxY - GERMANY_BBOX_UTM32.minY, TILE_SIZE)

\* Mutant of TileBox: the last row and column are not clipped.
TileBox_Unclipped(x, y) ==
    LET tileMinX == GERMANY_BBOX_UTM32.minX + x * TILE_SIZE
        tileMinY == GERMANY_BBOX_UTM32.minY + y * TILE_SIZE
    IN [minX |-> tileMinX, minY |-> tileMinY,
        maxX |-> tileMinX + TILE_SIZE,
        maxY |-> tileMinY + TILE_SIZE]

\* The bounding box of the tile at grid position (x, y).
TileBox(x, y) ==
    LET tileMinX == GERMANY_BBOX_UTM32.minX + x * TILE_SIZE
        tileMinY == GERMANY_BBOX_UTM32.minY + y * TILE_SIZE
    IN [minX |-> tileMinX, minY |-> tileMinY,
        maxX |-> Min(tileMinX + TILE_SIZE, GERMANY_BBOX_UTM32.maxX),
        maxY |-> Min(tileMinY + TILE_SIZE, GERMANY_BBOX_UTM32.maxY)]

\* The bbox filter of the feature service: the features whose point lies in the box.
InBox(f, b) ==
    /\ Len(f.coords) >= 2
    /\ b.minX <= f.coords[1] /\ f.coords[1] <= b.maxX
    /\ b.minY <= f.coords[2] /\ f.coords[2] <= b.maxY

TileFeatures(x, y) == SelectSeq(src, LAMBDA f : InBox(f, TileBox(x, y)))

(***************************************************************************)
(* The destination store.                                                  *)
(***************************************************************************)
\* Rows the table holds before the run: one the source no longer serves, one it does.
InitialStore ==
    { [bauwerksnummer |-> "Z", zustandsnote |-> Some(20), bundesland |-> Some("Bayern"),
       baujahr |-> Some(1990), landkreis |-> Some("K1"), traglastindex |-> NULL,
       laenge |-> Some(12), breite |-> Some(4),
       lat |-> 49652543, lng |-> 9000000],
      [bauwerksnummer |-> "A", zustandsnote |-> NULL, bundesland |-> NULL,
       baujahr |-> NULL, landkreis |-> NULL, traglastindex |-> NULL,
       laenge |-> NULL, breite |-> NULL,
       lat |-> 49652543, lng |-> 9000000] }

Keys(rows) == {r.bauwerksnummer : r \in rows}

\* Mutant of Upsert: a stored row in conflict with the batch is deleted, not replaced.
Upsert_DeleteOnConflict(table, batch) ==
    {r \in table : r.bauwerksnummer \notin Keys(Range(batch))}
        \cup {r \in Range(batch) : r.bauwerksnummer \notin Keys(table)}

\* Mutant of Upsert: the table is replaced by the batch.
Upsert_ReplaceAll(table, batch) == Range(batch)

\* ".from('bruecken').upsert(batch, { onConflict: 'bauwerksnummer' })" when it succeeds.
\* The payload holds every column but updated_at, which no trigger touches.
Upsert(table, batch) ==
    {r \in table : r.bauwerksnummer \notin Keys(Range(batch))} \cup Range(batch)

\* bridges.slice(at, at + UPSERT_BATCH_SIZE)
Slice(arr, at) == SubSeq(arr, at + 1, Min(at + UPSERT_BATCH_SIZE, Len(arr)))

\* useState's initial value in useBridges.
HookInitialState == [data |-> NULL, loading |-> TRUE, error |-> NULL]

\* The front end is not running: nothing is mounted, no query is in flight.
FrontEndAtRest ==
    /\ mounted = FALSE
    /\ filters = 1
    /\ effects = <<>>
    /\ state = HookInitialState
    /\ streamPc = "unmounted"
    /\ cancelled = FALSE
    /\ from = 0
    /\ hasMore = TRUE
    /\ allFeatures = 0
    /\ bridgeProgress = [loaded |-> 0, done |-> FALSE]
    /\ tableRows = 0

(***************************************************************************)
(* Initial state: the script starts, nothing has run.                      *)
(***************************************************************************)
Init ==
    /\ variant \in {"pagination", "tiling"}
    /\ env \in [url : BOOLEAN, key : BOOLEAN]
    /\ src \in SeqsUpTo(FeatureSet, MaxFeatures)
    /\ pc = "start"
    /\ startIndex = 0
    /\ totalFeatures = NULL
    /\ pagesWithNoData = 0
    /\ xi = 0
    /\ yi = 0
    /\ allBridges = <<>>
    /\ unique = <<>>
    /\ i = 0
    /\ inserted = 0
    /\ store = InitialStore
    /\ exitCode = NULL
    /\ summary = NULL
    /\ attempts = 0
    /\ requested = FALSE
    /\ seen = <<>>
    /\ batchLog = <<>>
    /\ refreshLog = <<>>
    /\ lastOut = "none"
    /\ emptyStreak = 0
    /\ prevRun = NULL
    /\ tileLog = <<>>
    /\ FrontEndAtRest

pagVars == <<startIndex, totalFeatures, pagesWithNoData, emptyStreak>>
tileVars == <<xi, yi, tileLog>>
loadVars == <<unique, i, inserted, store, batchLog, refreshLog>>

(***************************************************************************)
(* Module top level: "if (!SUPABASE_URL || !SUPABASE_SERVICE_KEY) {        *)
(* process.exit(1) }", then createClient and, at the bottom, main().       *)
(***************************************************************************)
\* Mutant of CheckConfig: only the endpoint is tested.
CheckConfig_UrlOnly ==
    /\ pc = "start"
    /\ IF ~env.url
       THEN pc' = "error" /\ exitCode' = Some(1)
       ELSE pc' = "fetch" /\ exitCode' = exitCode
    /\ UNCHANGED <<variant, env, src, prevRun, hookVars, streamVars,
                   pagVars, tileVars, allBridges, loadVars, summary,
                   attempts, requested, seen, lastOut>>

CheckConfig ==
    /\ pc = "start"
    /\ IF ~env.url \/ ~env.key
       THEN pc' = "error" /\ exitCode' = Some(1)
       ELSE pc' = "fetch" /\ exitCode' = exitCode
    /\ UNCHANGED <<variant, env, src, prevRun, hookVars, streamVars,
                   pagVars, tileVars, allBridges, loadVars, summary,
                   attempts, requested, seen, lastOut>>

(***************************************************************************)
(* Pagination script, main: the while (true) fetch loop.                   *)
(***************************************************************************)
\* Mutant of FetchPageOk: the offset advances by the page size, not by what arrived.
FetchPageOk_AdvanceByPageSize(k, tot) ==
    /\ pc = "fetch" /\ variant = "pagination"
    /\ LET features == Page(startIndex, k)
           total == IF tot # NULL /\ totalFeatures = NULL THEN tot ELSE totalFeatures
       IN /\ totalFeatures' = total
          /\ requested' = TRUE
          /\ seen' = seen \o features
          /\ lastOut' = "ok"
          /\ emptyStreak' = IF Len(features) = 0 THEN emptyStreak + 1 ELSE 0
          /\ IF Len(features) = 0
             THEN /\ pagesWithNoData' = pagesWithNoData + 1
                  /\ allBridges' = allBridges
                  /\ IF pagesWithNoData + 1 >= EMPTY_PAGE_LIMIT
                     THEN /\ pc' = "drained"
                          /\ startIndex' = startIndex
                          /\ attempts' = Min(attempts + 1, MaxAttempts)
                     ELSE /\ pc' = "fetch"
                          /\ startIndex' = startIndex + PAGE_SIZE
                          /\ attempts' = 0
             ELSE /\ pagesWithNoData' = 0
                  /\ allBridges' = PushRows(allBridges, features)
                  /\ startIndex' = startIndex + PAGE_SIZE
                  /\ attempts' = 0
                  /\ IF total # NULL /\ total[1] # 0 /\ startIndex + Len(features) >= total[1]
                     THEN pc' = "drained"
                     ELSE pc' = "delay"
    /\ UNCHANGED <<variant, env, src, prevRun, hookVars, streamVars,
                   tileVars, loadVars, exitCode, summary>>

\* fetchPage(startIndex) resolves with k features and the total tot.
FetchPageOk(k, tot) ==
    /\ pc = "fetch" /\ variant = "pagination"
    /\ LET features == Page(startIndex, k)
           total == IF tot # NULL /\ totalFeatures = NULL THEN tot ELSE totalFeatures
       IN /\ totalFeatures' = total
          /\ requested' = TRUE
          /\ seen' = seen \o features
          /\ lastOut' = "ok"
          /\ emptyStreak' = IF Len(features) = 0 THEN emptyStreak + 1 ELSE 0
          /\ IF Len(features) = 0
             THEN /\ pagesWithNoData' = pagesWithNoData + 1
                  /\ allBridges' = allBridges
                  /\ IF pagesWithNoData + 1 >= EMPTY_PAGE_LIMIT
                     THEN /\ pc' = "drained"
                          /\ startIndex' = startIndex
                          /\ attempts' = Min(attempts + 1, MaxAttempts)
                     ELSE /\ pc' = "fetch"
                          /\ startIndex' = startIndex + PAGE_SIZE
                          /\ attempts' = 0
             ELSE /\ pagesWithNoData' = 0
                  /\ allBridges' = PushRows(allBridges, features)
                  /\ startIndex' = startIndex + Len(features)
                  /\ attempts' = 0
                  /\ IF total # NULL /\ total[1] # 0 /\ startIndex + Len(features) >= total[1]
                     THEN pc' = "drained"
                     ELSE pc' = "delay"
    /\ UNCHANGED <<variant, env, src, prevRun, hookVars, streamVars,
                   tileVars, loadVars, exitCode, summary>>

\* Mutant of FetchPageFail: a failed request starts the count of empty pages anew.
FetchPageFail_ResetsCount ==
    /\ pc = "fetch" /\ variant = "pagination"
    /\ pc' = "retryDelay"
    /\ requested' = TRUE
    /\ attempts' = Min(attempts + 1, MaxAttempts)
    /\ lastOut' = "fail"
    /\ pagesWithNoData' = 0
    /\ UNCHANGED <<variant, env, src, prevRun, hookVars, streamVars,
                   startIndex, totalFeatures, emptyStreak, tileVars,
                   allBridges, loadVars, exitCode, summary, seen>>

\* fetchPage(startIndex) throws (network error, !response.ok, bad JSON): the catch block.
FetchPageFail ==
    /\ pc = "fetch" /\ variant = "pagination"
    /\ pc' = "retryDelay"
    /\ requested' = TRUE
    /\ attempts' = Min(attempts + 1, MaxAttempts)
    /\ lastOut' = "fail"
    /\ UNCHANGED <<variant, env, src, prevRun, hookVars, streamVars,
                   pagVars, tileVars, allBridges, loadVars, exitCode,
                   summary, seen>>

\* "await new Promise((r) => setTimeout(r, 2000)); // Retry": the loop goes round again.
RetryDelay ==
    /\ pc = "retryDelay"
    /\ pc' = "fetch"
    /\ lastOut' = "none"
    /\ UNCHANGED <<variant, env, src, prevRun, hookVars, streamVars,
                   pagVars, tileVars, allBridges, loadVars, exitCode,
                   summary, attempts, requested, seen>>

\* "await new Promise((r) => setTimeout(r, REQUEST_DELAY_MS))" of the pagination loop
PageDelay ==
    /\ pc = "delay" /\ variant = "pagination"
    /\ pc' = "fetch"
    /\ lastOut' = "none"
    /\ UNCHANGED <<variant, env, src, prevRun, hookVars, streamVars,
                   pagVars, tileVars, allBridges, loadVars, exitCode,
                   summary, attempts, requested, seen>>

\* Mutant of PageDrained: the empty-result exit is missing.
PageDrained_NoExit ==
    /\ pc = "drained" /\ variant = "pagination"
    /\ pc' = "load" /\ exitCode' = exitCode /\ unique' = Dedupe(<<>>, allBridges)
    /\ i' = 0
    /\ inserted' = 0
    /\ UNCHANGED <<variant, env, src, prevRun, hookVars, streamVars,
                   pagVars, tileVars, allBridges, store, batchLog,
                   refreshLog, summary, attempts, requested, seen, lastOut>>

\* After the loop: "if (allBridges.length === 0) process.exit(1)", else deduplicate.
PageDrained ==
    /\ pc = "drained" /\ variant = "pagination"
    /\ IF Len(allBridges) = 0
       THEN pc' = "error" /\ exitCode' = Some(1) /\ unique' = unique
       ELSE pc' = "load" /\ exitCode' = exitCode /\ unique' = Dedupe(<<>>, allBridges)
    /\ i' = 0
    /\ inserted' = 0
    /\ UNCHANGED <<variant, env, src, prevRun, hookVars, streamVars,
                   pagVars, tileVars, allBridges, store, batchLog,
                   refreshLog, summary, attempts, requested, seen, lastOut>>

(***************************************************************************)
(* Tiling script: fetchBridgeTile and main's grid traversal.               *)
(***************************************************************************)
\* First request of fetchBridgeTile for tile (xi, yi).  out: "ok" (response.ok and
\* JSON decoded), "http" (!response.ok), "throw" (fetch or json() threw).
FetchTile(out) ==
    /\ pc = "fetch" /\ variant = "tiling"
    /\ requested' = TRUE
    /\ attempts' = 1
    /\ lastOut' = out
    /\ tileLog' = Append(tileLog, <<xi, yi>>)
    /\ CASE out = "ok" ->
              /\ pc' = "delay"
              /\ seen' = seen \o TileFeatures(xi, yi)
              /\ allBridges' = SetRows(allBridges, TileFeatures(xi, yi))
         [] out = "http" ->
              /\ pc' = "altFetch"
              /\ UNCHANGED <<seen, allBridges>>
         [] out = "throw" ->
              /\ pc' = "delay"
              /\ UNCHANGED <<seen, allBridges>>
    /\ UNCHANGED <<variant, env, src, prevRun, hookVars, streamVars,
                   pagVars, xi, yi, loadVars, exitCode, summary>>

\* Mutant of AltFetchTile: a non-success status is retried again.
AltFetchTile_RetriesAgain(out) ==
    /\ pc = "altFetch"
    /\ attempts' = 2
    /\ lastOut' = out
    /\ pc' = IF out = "http" THEN "altFetch" ELSE "delay"
    /\ IF out = "ok"
       THEN /\ seen' = seen \o TileFeatures(xi, yi)
            /\ allBridges' = SetRows(allBridges, TileFeatures(xi, yi))
       ELSE UNCHANGED <<seen, allBridges>>
    /\ UNCHANGED <<variant, env, src, prevRun, hookVars, streamVars,
                   pagVars, tileVars, loadVars, exitCode, summary,
                   requested>>

\* Second request of fetchBridgeTile, typeName 'bast:bruecken', same bbox.
AltFetchTile(out) ==
    /\ pc = "altFetch"
    /\ attempts' = 2
    /\ lastOut' = out
    /\ pc' = "delay"
    /\ IF out = "ok"
       THEN /\ seen' = seen \o TileFeatures(xi, yi)
            /\ allBridges' = SetRows(allBridges, TileFeatures(xi, yi))
       ELSE UNCHANGED <<seen, allBridges>>
    /\ UNCHANGED <<variant, env, src, prevRun, hookVars, streamVars,
                   pagVars, tileVars, loadVars, exitCode, summary,
                   requested>>

\* The rate-limiting delay ending the loop body, then yi++ / xi++ and the loop tests.
TileDelay ==
    /\ pc = "delay" /\ variant = "tiling"
    /\ attempts' = 0
    /\ lastOut' = "none"
    /\ IF yi + 1 < tilesY
       THEN xi' = xi /\ yi' = yi + 1 /\ pc' = "fetch"
       ELSE IF xi + 1 < tilesX
            THEN xi' = xi + 1 /\ yi' = 0 /\ pc' = "fetch"
            ELSE xi' = xi + 1 /\ yi' = yi + 1 /\ pc' = "drained"
    /\ UNCHANGED <<variant, env, src, prevRun, hookVars, streamVars,
                   pagVars, allBridges, loadVars, exitCode, summary,
                   requested, seen, tileLog>>

\* After the traversal: "if (allBridges.size === 0) { ... GetCapabilities ... exit(1) }".
TileDrained ==
    /\ pc = "drained" /\ variant = "tiling"
    /\ IF Len(allBridges) = 0
       THEN pc' = "capabilities" /\ unique' = unique
       ELSE pc' = "load" /\ unique' = allBridges
    /\ i' = 0
    /\ inserted' = 0
    /\ UNCHANGED <<variant, env, src, prevRun, hookVars, streamVars,
                   pagVars, tileVars, allBridges, store, batchLog,
                   refreshLog, exitCode, summary, attempts, requested, seen, lastOut>>

\* The GetCapabilities request (its failure is caught), then process.exit(1).
Capabilities ==
    /\ pc = "capabilities"
    /\ pc' = "error"
    /\ exitCode' = Some(1)
    /\ UNCHANGED <<variant, env, src, prevRun, hookVars, streamVars,
                   pagVars, tileVars, allBridges, loadVars, summary,
                   attempts, requested, seen, lastOut>>

(***************************************************************************)
(* upsertBridges (the same in both scripts): one loop iteration per step.  *)
(***************************************************************************)
\* Mutant of UpsertBatch: a failed batch ends the loop.
UpsertBatch_BreakOnError(ok) ==
    /\ pc = "load"
    /\ i < Len(unique)
    /\ LET batch == Slice(unique, i) IN
       /\ batchLog' = Append(batchLog, [at |-> i, n |-> Len(batch), ok |-> ok])
       /\ store' = IF ok THEN Upsert(store, batch) ELSE store
       /\ inserted' = IF ok THEN inserted + Len(batch) ELSE inserted
    /\ i' = IF ok THEN i + UPSERT_BATCH_SIZE ELSE Len(unique)
    /\ UNCHANGED <<variant, env, src, prevRun, hookVars, streamVars,
                   pc, pagVars, tileVars, allBridges, unique, refreshLog,
                   exitCode, summary, attempts, requested, seen, lastOut>>

\* Mutant of UpsertBatch: a failed batch is thrown and reaches main().catch.
UpsertBatch_ThrowOnError(ok) ==
    /\ pc = "load"
    /\ i < Len(unique)
    /\ LET batch == Slice(unique, i) IN
       /\ batchLog' = Append(batchLog, [at |-> i, n |-> Len(batch), ok |-> ok])
       /\ store' = IF ok THEN Upsert(store, batch) ELSE store
       /\ inserted' = IF ok THEN inserted + Len(batch) ELSE inserted
    /\ i' = i + UPSERT_BATCH_SIZE
    /\ IF ok THEN pc' = pc /\ exitCode' = exitCode
             ELSE pc' = "error" /\ exitCode' = Some(1)
    /\ UNCHANGED <<variant, env, src, prevRun, hookVars, streamVars,
                   pagVars, tileVars, allBridges, unique, refreshLog,
                   summary, attempts, requested, seen, lastOut>>

\* Mutant of UpsertBatch: the loop index steps one record too far.
UpsertBatch_SkipsRecord(ok) ==
    /\ pc = "load"
    /\ i < Len(unique)
    /\ LET batch == Slice(unique, i) IN
       /\ batchLog' = Append(batchLog, [at |-> i, n |-> Len(batch), ok |-> ok])
       /\ store' = IF ok THEN Upsert(store, batch) ELSE store
       /\ inserted' = IF ok THEN inserted + Len(batch) ELSE inserted
    /\ i' = i + UPSERT_BATCH_SIZE + 1
    /\ UNCHANGED <<variant, env, src, prevRun, hookVars, streamVars,
                   pc, pagVars, tileVars, allBridges, unique, refreshLog,
                   exitCode, summary, attempts, requested, seen, lastOut>>

\* One upsert call; ok is whether it returned no error.
UpsertBatch(ok) ==
    /\ pc = "load"
    /\ i < Len(unique)
    /\ LET batch == Slice(unique, i) IN
       /\ batchLog' = Append(batchLog, [at |-> i, n |-> Len(batch), ok |-> ok])
       /\ store' = IF ok THEN Upsert(store, batch) ELSE store
       /\ inserted' = IF ok THEN inserted + Len(batch) ELSE inserted
    /\ i' = i + UPSERT_BATCH_SIZE
    /\ UNCHANGED <<variant, env, src, prevRun, hookVars, streamVars,
                   pc, pagVars, tileVars, allBridges, unique, refreshLog,
                   exitCode, summary, attempts, requested, seen, lastOut>>

\* Mutant of UpsertDone: the refresh is skipped when no row was upserted.
UpsertDone_SkipRefresh ==
    /\ pc = "load"
    /\ i >= Len(unique)
    /\ pc' = IF inserted = 0 THEN "summary" ELSE "refresh"
    /\ UNCHANGED <<variant, env, src, prevRun, hookVars, streamVars,
                   pagVars, tileVars, allBridges, loadVars, exitCode,
                   summary, attempts, requested, seen, lastOut>>

\* Mutant of UpsertDone: when no row was upserted the script fetches again.
UpsertDone_FetchAgain ==
    /\ pc = "load"
    /\ i >= Len(unique)
    /\ pc' = IF inserted = 0 THEN "fetch" ELSE "refresh"
    /\ UNCHANGED <<variant, env, src, prevRun, hookVars, streamVars,
                   pagVars, tileVars, allBridges, loadVars, exitCode,
                   summary, attempts, requested, seen, lastOut>>

\* The loop test fails: "return inserted".
UpsertDone ==
    /\ pc = "load"
    /\ i >= Len(unique)
    /\ pc' = "refresh"
    /\ UNCHANGED <<variant, env, src, prevRun, hookVars, streamVars,
                   pagVars, tileVars, allBridges, loadVars, exitCode,
                   summary, attempts, requested, seen, lastOut>>

\* Mutant of Refresh: a refresh error is fatal.
Refresh_FatalOnError(ok) ==
    /\ pc = "refresh"
    /\ refreshLog' = Append(refreshLog, ok)
    /\ IF ok THEN pc' = "summary" /\ exitCode' = exitCode
             ELSE pc' = "error" /\ exitCode' = Some(1)
    /\ UNCHANGED <<variant, env, src, prevRun, hookVars, streamVars,
                   pagVars, tileVars, allBridges, unique, i, inserted,
                   store, batchLog, summary, attempts, requested, seen, lastOut>>

\* "await supabase.rpc('refresh_landkreis_stats')"; an error is only logged.
Refresh(ok) ==
    /\ pc = "refresh"
    /\ refreshLog' = Append(refreshLog, ok)
    /\ pc' = "summary"
    /\ UNCHANGED <<variant, env, src, prevRun, hookVars, streamVars,
                   pagVars, tileVars, allBridges, unique, i, inserted,
                   store, batchLog, exitCode, summary, attempts, requested, seen, lastOut>>

\* Math.round((c / w) * 100) for c >= 0, w > 0
RoundPct(c, w) == (200 * c + w) \div (2 * w)

\* The statistics of the pagination script's summary block.
Stats(arr) ==
    LET withNote == SelectSeq(arr, LAMBDA b : b.zustandsnote # NULL)
        critical == SelectSeq(withNote, LAMBDA b : b.zustandsnote # NULL /\ b.zustandsnote[1] >= 30)
        landkreise == {b.landkreis : b \in Range(arr)} \ {NULL}
        bundeslaender == {b.bundesland : b \in Range(arr)} \ {NULL}
    IN [total |-> Len(arr), withNote |-> Len(withNote), critical |-> Len(critical),
        pct |-> Some(RoundPct(Len(critical), IF Len(withNote) >= 1 THEN Len(withNote) ELSE 1)),
        landkreise |-> Cardinality(landkreise),
        bundeslaender |-> Cardinality(bundeslaender)]

\* The statistics of the tiling script's summary block: the percentage divides by
\* withNote.length itself (0 / 0 is NaN), the Set of landkreis values is not filtered.
StatsTile(arr) ==
    LET withNote == SelectSeq(arr, LAMBDA b : b.zustandsnote # NULL)
        critical == SelectSeq(withNote, LAMBDA b : b.zustandsnote # NULL /\ b.zustandsnote[1] >= 30)
    IN [total |-> Len(arr), withNote |-> Len(withNote), critical |-> Len(critical),
        pct |-> IF Len(withNote) = 0 THEN NAN
                ELSE Some(RoundPct(Len(critical), Len(withNote))),
        landkreise |-> Cardinality({b.landkreis : b \in Range(arr)})]

\* Mutant of Summary: the status reflects whether any row was upserted.
Summary_StatusFromInserted ==
    /\ pc = "summary"
    /\ summary' = Some(IF variant = "pagination" THEN Stats(unique) ELSE StatsTile(unique))
    /\ pc' = "done"
    /\ exitCode' = IF inserted = 0 THEN Some(1) ELSE Some(0)
    /\ UNCHANGED <<variant, env, src, prevRun, hookVars, streamVars,
                   pagVars, tileVars, allBridges, loadVars, attempts,
                   requested, seen, lastOut>>

\* The summary is printed, main resolves and the process ends with status 0.
Summary ==
    /\ pc = "summary"
    /\ summary' = Some(IF variant = "pagination" THEN Stats(unique) ELSE StatsTile(unique))
    /\ pc' = "done"
    /\ exitCode' = Some(0)
    /\ UNCHANGED <<variant, env, src, prevRun, hookVars, streamVars,
                   pagVars, tileVars, allBridges, loadVars, attempts,
                   requested, seen, lastOut>>

Next ==
    \/ CheckConfig
    \/ \E k \in 0..MaxPage, tot \in {NULL, Some(Len(src))} :
          k \in PageLens(startIndex) /\ FetchPageOk(k, tot)
    \/ FetchPageFail
    \/ RetryDelay
    \/ PageDelay
    \/ PageDrained
    \/ \E out \in {"ok", "http", "throw"} : FetchTile(out)
    \/ \E out \in {"ok", "http", "throw"} : AltFetchTile(out)
    \/ TileDelay
    \/ TileDrained
    \/ Capabilities
    \/ \E ok \in BOOLEAN : UpsertBatch(ok)
    \/ UpsertDone
    \/ \E ok \in BOOLEAN : Refresh(ok)
    \/ Summary

Spec == Init /\ [][Next]_vars

\* The script's own steps always go on: each await eventually resolves.
FairSpec == Spec /\ WF_vars(Next)

(***************************************************************************)
(* transformFeature on its own: one response whose features are            *)
(* normalised by the loop body of either script.  The response holds a     *)
(* feature drawn from every combination of identifier, geometry, score and *)
(* code, alone or next to a feature that is accepted.                      *)
(***************************************************************************)
NormFeatures ==
    [ bwnr   : {NULL, Some(""), Some(" "), Some(" A"), Some("A")},
      coords : {<<>>, <<500000>>, P_IN, P_OUT}
                  \cup Range(P_LAT47) \cup Range(P_LAT555) \cup Range(P_LNG5) \cup Range(P_LNG155),
      zn     : {NULL, TEXT, Some(0), Some(-10), Some(15)},
      bl     : {NULL, TEXT} \cup {Some(n) : n \in -1..MaxBl} ]

F_GOOD == [bwnr |-> Some("B"), coords |-> P_EDGE, zn |-> NULL, bl |-> Some(17)]

NormResponses ==
    {<<f>> : f \in NormFeatures} \cup {<<f, F_GOOD>> : f \in NormFeatures}
        \cup {<<F_GOOD, f>> : f \in NormFeatures}

NormInit ==
    /\ variant \in {"pagination", "tiling"}
    /\ env = [url |-> TRUE, key |-> TRUE]
    /\ src \in NormResponses
    /\ pc = "fetch"
    /\ startIndex = 0
    /\ totalFeatures = NULL
    /\ pagesWithNoData = 0
    /\ xi = 0
    /\ yi = 0
    /\ allBridges = <<>>
    /\ unique = <<>>
    /\ i = 0
    /\ inserted = 0
    /\ store = InitialStore
    /\ exitCode = NULL
    /\ summary = NULL
    /\ attempts = 0
    /\ requested = FALSE
    /\ seen = <<>>
    /\ batchLog = <<>>
    /\ refreshLog = <<>>
    /\ lastOut = "none"
    /\ emptyStreak = 0
    /\ prevRun = NULL
    /\ tileLog = <<>>
    /\ FrontEndAtRest

\* "for (const f of features) { const row = transformFeature(f); if (row) ... }" on the
\* features of the response.
Normalize ==
    /\ pc = "fetch"
    /\ pc' = "delay"
    /\ requested' = TRUE
    /\ lastOut' = "ok"
    /\ seen' = seen \o src
    /\ allBridges' = IF variant = "pagination" THEN PushRows(allBridges, src)
                                               ELSE SetRows(allBridges, src)
    /\ UNCHANGED <<variant, env, src, prevRun, hookVars, streamVars,
                   pagVars, tileVars, loadVars, exitCode, summary,
                   attempts>>

NormNext == Normalize

NormSpec == NormInit /\ [][NormNext]_vars

(***************************************************************************)
(* The normaliser on features whose numeric attributes and coordinates     *)
(* take every kind of value: missing, text, zero, negative, positive.      *)
(***************************************************************************)
NumericValues == {NULL, TEXT, Some(0), Some(-1), Some(5)}

CoerceFeatures ==
    [ bwnr   : {Some("A")},
      coords : {P_IN, P_OUT, P_NAN},
      zn     : {Some(15)},
      bl     : {Some(9)},
      state  : {NULL, Some("K1")},
      yearbuild     : NumericValues,
      length        : NumericValues,
      width         : NumericValues,
      capacityindex : NumericValues ]

CoerceResponses == {<<f>> : f \in CoerceFeatures}

CoerceInit ==
    /\ variant \in {"pagination", "tiling"}
    /\ env = [url |-> TRUE, key |-> TRUE]
    /\ src \in CoerceResponses
    /\ pc = "fetch"
    /\ startIndex = 0
    /\ totalFeatures = NULL
    /\ pagesWithNoData = 0
    /\ xi = 0
    /\ yi = 0
    /\ allBridges = <<>>
    /\ unique = <<>>
    /\ i = 0
    /\ inserted = 0
    /\ store = InitialStore
    /\ exitCode = NULL
    /\ summary = NULL
    /\ attempts = 0
    /\ requested = FALSE
    /\ seen = <<>>
    /\ batchLog = <<>>
    /\ refreshLog = <<>>
    /\ lastOut = "none"
    /\ emptyStreak = 0
    /\ prevRun = NULL
    /\ tileLog = <<>>
    /\ FrontEndAtRest

CoerceSpec == CoerceInit /\ [][NormNext]_vars

(***************************************************************************)
(* The pagination script against a server that may answer any request      *)
(* with an empty page ("features: data.features ?? []"), and whose total    *)
(* may be missing, zero or right.                                           *)
(***************************************************************************)
FlakyInit == Init /\ variant = "pagination"

FlakyNext ==
    \/ CheckConfig
    \/ \E k \in 0..MaxPage, tot \in {NULL, Some(0), Some(Len(src))} :
          (k = 0 \/ k \in PageLens(startIndex)) /\ FetchPageOk(k, tot)
    \/ FetchPageFail
    \/ RetryDelay
    \/ PageDelay

FlakySpec == FlakyInit /\ [][FlakyNext]_vars

(***************************************************************************)
(* Fetching and deduplication alone: either script from its start until    *)
(* the record set is ready for the load (or found empty), against the      *)
(* faithful source.                                                        *)
(***************************************************************************)
FetchNext ==
    \/ CheckConfig
    \/ \E k \in 0..MaxPage, tot \in {NULL, Some(Len(src))} :
          k \in PageLens(startIndex) /\ FetchPageOk(k, tot)
    \/ FetchPageFail
    \/ RetryDelay
    \/ PageDelay
    \/ PageDrained
    \/ \E out \in {"ok", "http", "throw"} : FetchTile(out)
    \/ \E out \in {"ok", "http", "throw"} : AltFetchTile(out)
    \/ TileDelay
    \/ TileDrained

FetchSpec == Init /\ [][FetchNext]_vars

(***************************************************************************)
(* Repeated runs of the pagination script against one destination table.   *)
(* A run's fetch phase, which does not touch the table, is taken in one    *)
(* step: the source holds s, the server sends it as one page with its      *)
(* total, and the script stands before upsertBridges(unique).              *)
(***************************************************************************)
\* Features the source may hold over the runs: one asset in two versions, another asset.
RunFeatureSet ==
    { [bwnr |-> Some("A"), coords |-> P_IN,   zn |-> Some(15), bl |-> Some(9)],
      [bwnr |-> Some("A"), coords |-> P_EDGE, zn |-> Some(30), bl |-> Some(15)],
      [bwnr |-> Some("B"), coords |-> P_EDGE, zn |-> NULL,     bl |-> NULL] }

RunSources == SeqsUpTo(RunFeatureSet, MaxRunFeatures) \ {<<>>}

StoreInit ==
    /\ variant = "pagination"
    /\ env = [url |-> TRUE, key |-> TRUE]
    /\ src \in RunSources
    /\ pc = "load"
    /\ startIndex = Len(src)
    /\ totalFeatures = Some(Len(src))
    /\ pagesWithNoData = 0
    /\ xi = 0
    /\ yi = 0
    /\ allBridges = PushRows(<<>>, src)
    /\ unique = Dedupe(<<>>, PushRows(<<>>, src))
    /\ i = 0
    /\ inserted = 0
    /\ store = InitialStore
    /\ exitCode = NULL
    /\ summary = NULL
    /\ attempts = 0
    /\ requested = TRUE
    /\ seen = src
    /\ batchLog = <<>>
    /\ refreshLog = <<>>
    /\ lastOut = "ok"
    /\ emptyStreak = 0
    /\ prevRun = NULL
    /\ tileLog = <<>>
    /\ FrontEndAtRest

\* The process has ended; the script is started again, the source now holding s.
Rerun(s) ==
    /\ pc = "done"
    /\ prevRun' = Some([unique |-> unique, store |-> store,
                        ok |-> \A k \in DOMAIN batchLog : batchLog[k].ok])
    /\ src' = s
    /\ pc' = "load"
    /\ startIndex' = Len(s)
    /\ totalFeatures' = Some(Len(s))
    /\ pagesWithNoData' = 0
    /\ allBridges' = PushRows(<<>>, s)
    /\ unique' = Dedupe(<<>>, PushRows(<<>>, s))
    /\ i' = 0
    /\ inserted' = 0
    /\ exitCode' = NULL
    /\ summary' = NULL
    /\ attempts' = 0
    /\ requested' = TRUE
    /\ seen' = s
    /\ batchLog' = <<>>
    /\ refreshLog' = <<>>
    /\ lastOut' = "ok"
    /\ emptyStreak' = 0
    /\ UNCHANGED <<variant, env, store, tileVars, hookVars, streamVars>>

StoreNext ==
    \/ \E ok \in BOOLEAN : UpsertBatch(ok)
    \/ UpsertDone
    \/ \E ok \in BOOLEAN : Refresh(ok)
    \/ Summary
    \/ \E s \in RunSources : Rerun(s)

StoreSpec == StoreInit /\ [][StoreNext]_vars

(***************************************************************************)
(* The front end.  No ETL script runs while it is observed.                *)
(***************************************************************************)
EtlAtRest ==
    /\ variant = "pagination"
    /\ env = [url |-> TRUE, key |-> TRUE]
    /\ src = <<>>
    /\ pc = "start"
    /\ startIndex = 0
    /\ totalFeatures = NULL
    /\ pagesWithNoData = 0
    /\ xi = 0
    /\ yi = 0
    /\ allBridges = <<>>
    /\ unique = <<>>
    /\ i = 0
    /\ inserted = 0
    /\ store = InitialStore
    /\ exitCode = NULL
    /\ summary = NULL
    /\ attempts = 0
    /\ requested = FALSE
    /\ seen = <<>>
    /\ batchLog = <<>>
    /\ refreshLog = <<>>
    /\ lastOut = "none"
    /\ emptyStreak = 0
    /\ prevRun = NULL
    /\ tileLog = <<>>

(***************************************************************************)
(* useBridges(filters).  Each run of the effect has its own 'cancelled'    *)
(* flag and one query in flight; effects[q] is the q-th run: the filters   *)
(* it captured, its flag, and 'answered': 0 while the query is in flight,  *)
(* else the rank of arrival of its response among all responses.           *)
(***************************************************************************)
Filters == 1..MaxFilters

\* How many responses have arrived.
Arrived == Cardinality({q \in DOMAIN effects : effects[q].answered # 0})

\* The effect body up to the await: "let cancelled = false", then fetchBridges()
\* does "setState((prev) => ({ ...prev, loading: true, error: null }))" and
\* issues the query built from f.
RunEffect(f, before) ==
    /\ effects' = Append(before, [filters |-> f, cancelled |-> FALSE, answered |-> 0])
    /\ state' = [state EXCEPT !.loading = TRUE, !.error = NULL]
    /\ filters' = f

\* The cleanup of the latest effect run: "cancelled = true".
Cleanup(effs) == [effs EXCEPT ![Len(effs)].cancelled = TRUE]

\* First render: the component mounts with filters f and the effect runs.
HookMount(f) ==
    /\ ~mounted /\ effects = <<>>
    /\ mounted' = TRUE
    /\ RunEffect(f, effects)
    /\ UNCHANGED <<etlVars, streamVars>>

\* A render with filters that differ in a dependency: cleanup, then the effect again.
HookRender(f) ==
    /\ mounted /\ f # filters
    /\ Len(effects) < MaxEffects
    /\ RunEffect(f, Cleanup(effects))
    /\ UNCHANGED <<etlVars, streamVars, mounted>>

\* Mutant of HookRespond: the flag is not consulted.
HookRespond_IgnoresCancelled(q, out) ==
    /\ q \in DOMAIN effects /\ effects[q].answered = 0
    /\ effects' = [effects EXCEPT ![q].answered = Arrived + 1]
    /\ state' = CASE out = "data" ->
                       [data |-> Some([query |-> q, filters |-> effects[q].filters]),
                        loading |-> FALSE, error |-> NULL]
                   [] out \in {"error", "throw"} ->
                       [data |-> NULL, loading |-> FALSE,
                        error |-> Some([query |-> q, filters |-> effects[q].filters])]
    /\ UNCHANGED <<etlVars, streamVars, mounted, filters>>

\* "await query" of the q-th effect run resolves with data or an error, or throws:
\* "if (!cancelled) setState(..)" in the try block and in the catch block.
HookRespond(q, out) ==
    /\ q \in DOMAIN effects /\ effects[q].answered = 0
    /\ effects' = [effects EXCEPT ![q].answered = Arrived + 1]
    /\ state' = IF effects[q].cancelled THEN state
                ELSE CASE out = "data" ->
                            [data |-> Some([query |-> q, filters |-> effects[q].filters]),
                             loading |-> FALSE, error |-> NULL]
                        [] out \in {"error", "throw"} ->
                            [data |-> NULL, loading |-> FALSE,
                             error |-> Some([query |-> q, filters |-> effects[q].filters])]
    /\ UNCHANGED <<etlVars, streamVars, mounted, filters>>

\* The component unmounts: the cleanup of the latest effect run.
HookUnmount ==
    /\ mounted
    /\ mounted' = FALSE
    /\ effects' = Cleanup(effects)
    /\ UNCHANGED <<etlVars, streamVars, filters, state>>

HookInit == EtlAtRest /\ FrontEndAtRest

HookNext ==
    \/ \E f \in Filters : HookMount(f)
    \/ \E f \in Filters : HookRender(f)
    \/ \E q \in 1..MaxEffects, out \in {"data", "error", "throw"} : HookRespond(q, out)
    \/ HookUnmount

HookSpec == HookInit /\ [][HookNext]_vars

(***************************************************************************)
(* DataProvider: the progressive bridge loading effect and streamBridges.  *)
(* The front end's PAGE_SIZE is the same number as the scripts'.           *)
(***************************************************************************)
\* The rows ".range(from, from + PAGE_SIZE - 1)" returns from a table of tableRows rows.
RangeRows(at) ==
    IF at >= tableRows THEN 0 ELSE Min(PAGE_SIZE, tableRows - at)

\* The provider mounts over a table of n rows: the effect runs, streamBridges enters
\* its loop (hasMore && !cancelled) and awaits the first page query.
ProviderMount(n) ==
    /\ streamPc = "unmounted"
    /\ tableRows' = n
    /\ cancelled' = FALSE
    /\ from' = 0
    /\ hasMore' = TRUE
    /\ streamPc' = "await"
    /\ UNCHANGED <<etlVars, hookVars, allFeatures, bridgeProgress>>

\* The awaited page query settles.  out = "error": the result carries an error (or
\* the request rejects), streamBridges throws and the .catch logs it.  out = "data":
\* k of the rows have coordinates (bridgesToFeatures); the rest of the loop body, the
\* loop test, and either the next query or the code after the loop.
StreamPage(out, k) ==
    /\ streamPc = "await"
    /\ IF out = "error"
       THEN /\ streamPc' = "failed"
            /\ UNCHANGED <<from, hasMore, allFeatures, bridgeProgress>>
       ELSE LET rows == RangeRows(from) IN
            /\ k <= rows
            /\ allFeatures' = allFeatures + k
            /\ hasMore' = (rows = PAGE_SIZE)
            /\ from' = from + PAGE_SIZE
            /\ IF rows = PAGE_SIZE /\ ~cancelled
               THEN /\ streamPc' = "await"
                    /\ bridgeProgress' = [loaded |-> allFeatures + k, done |-> rows < PAGE_SIZE]
               ELSE /\ streamPc' = "ended"
                    /\ bridgeProgress' =
                          IF cancelled THEN bridgeProgress
                          ELSE [loaded |-> allFeatures + k, done |-> TRUE]
    /\ UNCHANGED <<etlVars, hookVars, cancelled, tableRows>>

\* The provider unmounts: "return () => { cancelled = true; }".
ProviderUnmount ==
    /\ streamPc # "unmounted" /\ ~cancelled
    /\ cancelled' = TRUE
    /\ UNCHANGED <<etlVars, hookVars, streamPc, from, hasMore, allFeatures, bridgeProgress,
                   tableRows>>

StreamInit == EtlAtRest /\ FrontEndAtRest

StreamNext ==
    \/ \E n \in 0..MaxRows : ProviderMount(n)
    \/ \E out \in {"data", "error"}, k \in 0..PAGE_SIZE : StreamPage(out, k)
    \/ ProviderUnmount

StreamSpec == StreamInit /\ [][StreamNext]_vars

(***************************************************************************)
(* Properties.                                                             *)
(***************************************************************************)
FetchingPcs == {"fetch", "altFetch", "retryDelay", "delay"}
LoadedPcs == {"load", "refresh", "summary", "done"}

\* The orchestrator state a position belongs to.
Phase(p) ==
    CASE p = "start" -> "CONFIG"
      [] p \in FetchingPcs -> "FETCHING"
      [] p \in {"drained", "capabilities"} -> "DRAINED"
      [] p = "load" -> "LOADING"
      [] p = "refresh" -> "REFRESHING"
      [] p \in {"summary", "done"} -> "DONE"
      [] p = "error" -> "ERROR"

NumBatches == Ceil(Len(unique), UPSERT_BATCH_SIZE)

\* Rows of the features received so far that normalisation accepts, in arrival order.
AcceptedRows ==
    LET acc == SelectSeq(seen, LAMBDA f : Transform(variant, f) # NULL)
    IN [j \in DOMAIN acc |-> Transform(variant, acc[j])[1]]

RECURSIVE SumOk(_)
SumOk(log) ==
    IF log = <<>> THEN 0
    ELSE (IF Head(log).ok THEN Head(log).n ELSE 0) + SumOk(Tail(log))

\* The table after the successful batches of the log, in call order.
RECURSIVE StoreAfter(_, _)
StoreAfter(table, log) ==
    IF log = <<>> THEN table
    ELSE StoreAfter(IF Head(log).ok THEN Upsert(table, Slice(unique, Head(log).at)) ELSE table,
                    Tail(log))

(* C1: a failed unit (page offset or tile) is retried exactly once and then  *)
(* skipped, hence no unit is requested more than twice in one run.           *)
C1_NoUnitRequestedMoreThanTwice == attempts <= 2

(* C2: under weak fairness of the pipeline's steps the run eventually        *)
(* leaves the fetch loop (reaches DRAINED or exits), whatever requests fail. *)
C2_FetchingTerminates == <>(pc \notin FetchingPcs \cup {"start"})

(* C3: when zero records were accepted once the source is exhausted, the     *)
(* process exits with a non-zero status and issues no upsert and no refresh  *)
(* call; the destination store is as it was.                                 *)
C3_ZeroRecordsLeaveStoreUntouched ==
    (requested /\ pc \notin FetchingPcs /\ Len(allBridges) = 0) =>
        /\ pc \in {"drained", "capabilities", "error"}
        /\ exitCode = (IF pc = "error" THEN Some(1) ELSE NULL)
        /\ batchLog = <<>>
        /\ refreshLog = <<>>
        /\ store = InitialStore

C3_Witness ==
    /\ pc = "error" /\ requested /\ exitCode = Some(1)
    /\ Len(seen) > 0 /\ AcceptedRows = <<>>
    /\ store = InitialStore

(* C4: when the endpoint or the credential is absent the process exits at    *)
(* once with a non-zero status: no source request, no upsert, no refresh.    *)
C4_MissingConfigExitsBeforeNetwork ==
    (~env.url \/ ~env.key) =>
        /\ pc \in {"start", "error"}
        /\ exitCode = (IF pc = "error" THEN Some(1) ELSE NULL)
        /\ ~requested
        /\ batchLog = <<>>
        /\ refreshLog = <<>>

C4_Witness == pc = "error" /\ env.url /\ ~env.key /\ exitCode = Some(1) /\ ~requested

(* C5: the record set handed to the Loader holds exactly one record per      *)
(* distinct asset_id among the accepted features, and that record is the one *)
(* produced from the latest-seen accepted feature with that asset_id.        *)
C5_DedupLastWriteWins ==
    pc \in LoadedPcs =>
        LET rows == AcceptedRows IN
        /\ Keys(Range(unique)) = Keys(Range(rows))
        /\ Len(unique) = Cardinality(Keys(Range(rows)))
        /\ \A j \in DOMAIN unique :
              \E k \in DOMAIN rows :
                 /\ rows[k] = unique[j]
                 /\ \A l \in DOMAIN rows :
                       l > k => rows[l].bauwerksnummer # unique[j].bauwerksnummer

C5_Witness ==
    /\ pc = "load"
    /\ Len(AcceptedRows) = 3 /\ Len(unique) = 2
    /\ AcceptedRows[1].bauwerksnummer = AcceptedRows[3].bauwerksnummer
    /\ AcceptedRows[1] # AcceptedRows[3]
    /\ AcceptedRows[3] \in Range(unique)

(* C6: whatever batches fail, every batch is attempted exactly once in       *)
(* order, the Loader neither raises nor aborts, and the succeeded count is   *)
(* the number of records in the batches whose upsert succeeded.              *)
C6_PartialFailureIsolation ==
    /\ \A k \in DOMAIN batchLog :
          /\ batchLog[k].at = (k - 1) * UPSERT_BATCH_SIZE
          /\ batchLog[k].n = Min(UPSERT_BATCH_SIZE, Len(unique) - batchLog[k].at)
    /\ inserted = SumOk(batchLog)
    /\ batchLog # <<>> => pc \in LoadedPcs
    /\ pc \in {"refresh", "summary", "done"} => Len(batchLog) = NumBatches

C6_Witness ==
    /\ pc = "refresh"
    /\ Len(batchLog) = 3
    /\ batchLog[1].ok /\ ~batchLog[2].ok /\ batchLog[3].ok
    /\ inserted = batchLog[1].n + batchLog[3].n

(* C7: in a run that reaches the load phase the refresh is invoked exactly   *)
(* once, and only after every batch has been attempted, whatever the         *)
(* outcome of the batches.                                                   *)
C7_RefreshOnceAfterAllBatches ==
    /\ Len(refreshLog) <= 1
    /\ refreshLog # <<>> => Len(batchLog) = NumBatches /\ pc \in {"summary", "done"}
    /\ pc \in {"summary", "done"} => Len(refreshLog) = 1
    /\ unique # <<>> => pc \in LoadedPcs

C7_Witness ==
    /\ pc = "done"
    /\ Len(refreshLog) = 1
    /\ Len(batchLog) >= 2
    /\ \A k \in DOMAIN batchLog : ~batchLog[k].ok

(* C8: when the refresh returns an error the run still prints its summary    *)
(* and ends with status zero, and the upserted rows stay as they are.        *)
C8_RefreshFailureNotFatal ==
    (refreshLog # <<>> /\ ~refreshLog[1]) =>
        /\ pc \in {"summary", "done"}
        /\ pc = "done" => (exitCode = Some(0) /\ summary # NULL)
        /\ pc = "summary" => exitCode = NULL
        /\ store = StoreAfter(InitialStore, batchLog)

C8_Witness ==
    /\ pc = "done" /\ refreshLog = <<FALSE>>
    /\ exitCode = Some(0) /\ summary # NULL
    /\ inserted > 0 /\ store # InitialStore

(* C9: a run ends with a non-zero status if and only if zero records were    *)
(* accepted; a run that obtained a record ends with status zero whatever     *)
(* happens during loading and refresh.                                       *)
C9_NonZeroExitIffNoData ==
    exitCode # NULL => (exitCode[1] # 0 <=> Len(allBridges) = 0)

C9_Witness ==
    /\ pc = "done" /\ exitCode = Some(0)
    /\ Len(allBridges) > 0
    /\ inserted = 0 /\ refreshLog = <<FALSE>>

(* C10 as stated: ERROR is entered only before the first source request.     *)
C10_ErrorOnlyBeforeFetching == pc = "error" => ~requested

(* C10, amended: ERROR is entered only from the configuration check, before  *)
(* any source request, or from DRAINED when zero records were accepted;      *)
(* otherwise the run moves FETCHING -> DRAINED -> LOADING -> REFRESHING ->   *)
(* DONE, and a run that drained with a record never enters ERROR.            *)
C10_PhaseStep ==
    LET p == Phase(pc)
        q == Phase(pc')
    IN \/ p = q
       \/ p = "CONFIG" /\ q = "FETCHING"
       \/ p = "CONFIG" /\ q = "ERROR" /\ ~requested /\ (~env.url \/ ~env.key)
       \/ p = "FETCHING" /\ q = "DRAINED"
       \/ p = "DRAINED" /\ q = "LOADING" /\ Len(allBridges) > 0
       \/ p = "DRAINED" /\ q = "ERROR" /\ Len(allBridges) = 0
       \/ p = "LOADING" /\ q = "REFRESHING"
       \/ p = "REFRESHING" /\ q = "DONE"

C10_PhaseOrder == [][C10_PhaseStep]_vars

C10_Witness ==
    /\ pc = "error" /\ requested
    /\ env.url /\ env.key
    /\ Len(allBridges) = 0

(* C11: loading the same record set twice, every batch succeeding, leaves     *)
(* the table after the second load equal to the table after the first: the   *)
(* same rows with the same values, the same count, one row per asset_id.     *)
C11_LoadIdempotent ==
    ( /\ prevRun # NULL
      /\ pc \in {"refresh", "summary", "done"}
      /\ prevRun[1].unique = unique /\ prevRun[1].ok
      /\ \A k \in DOMAIN batchLog : batchLog[k].ok ) =>
        /\ store = prevRun[1].store
        /\ Cardinality(store) = Cardinality(prevRun[1].store)
        /\ Cardinality(Keys(store)) = Cardinality(store)

C11_Witness ==
    /\ prevRun # NULL
    /\ pc = "refresh"
    /\ prevRun[1].unique = unique /\ prevRun[1].ok
    /\ Len(unique) = 2 /\ Len(batchLog) = NumBatches
    /\ \A k \in DOMAIN batchLog : batchLog[k].ok
    /\ Range(unique) \subseteq store
    /\ store # InitialStore

(* C13: with offset pagination and no usable total, the fetch has stopped    *)
(* exactly when three successful responses in a row carried an empty page:   *)
(* fewer never end it, a non-empty page starts the count anew, and a failed  *)
(* request neither counts nor starts it anew.                                *)
C13_StopsAtThreeEmptyPages ==
    (requested /\ (totalFeatures = NULL \/ totalFeatures = Some(0))) =>
        /\ pc = "drained" <=> emptyStreak = 3
        /\ pc \in FetchingPcs <=> emptyStreak < 3
        /\ pagesWithNoData = emptyStreak

C13_Witness ==
    /\ pc = "drained" /\ totalFeatures = NULL
    /\ emptyStreak = 3
    /\ attempts >= 2
    /\ Len(seen) > 0
    /\ startIndex > Len(seen) + 2 * PAGE_SIZE

\* The claim's rejection conditions, read off the feature.
IdMissingOrEmpty(f) == f.bwnr = NULL \/ f.bwnr = Some("")
GeometryInvalid(f) == Len(f.coords) < 2
InEnvelope(p) ==
    p.lat >= 47000000 /\ p.lat <= 55500000 /\ p.lng >= 5000000 /\ p.lng <= 15500000
ClaimRejects(f) ==
    IdMissingOrEmpty(f) \/ GeometryInvalid(f) \/ ~InEnvelope(utm32ToWgs84(f.coords))
Kept(fs) == SelectSeq(fs, LAMBDA f : ~ClaimRejects(f))

(* C14: normalize rejects a feature exactly when its identifier is missing   *)
(* or empty, its geometry is missing or has fewer than two coordinates, or   *)
(* its converted coordinates fail the plausibility test; every other         *)
(* feature of the response yields a record whose asset_id is its identifier, *)
(* whatever was rejected before or after it.                                 *)
C14_RejectsExactly ==
    pc = "delay" =>
        /\ Len(allBridges) = Len(Kept(seen))
        /\ \A k \in DOMAIN allBridges :
              allBridges[k].bauwerksnummer = Kept(seen)[k].bwnr[1]

\* The record, if any, that the response's j-th feature left among the accepted ones.
RowsOf(j) ==
    {r \in Range(allBridges) :
        /\ seen[j].bwnr # NULL /\ r.bauwerksnummer = seen[j].bwnr[1]
        /\ Len(seen[j].coords) >= 2
        /\ r.lat = utm32ToWgs84(seen[j].coords).lat
        /\ r.lng = utm32ToWgs84(seen[j].coords).lng}

\* A feature whose identifier and geometry are in order.
WellFormed(f) == f.bwnr \in {Some("A"), Some("B")} /\ Len(f.coords) >= 2

(* C15: the plausibility envelope is closed at its bounds.  With converted   *)
(* coordinates in millionths of a degree, a well-formed feature is rejected  *)
(* when latitude < 47.000000, latitude > 55.500000, longitude < 5.000000 or  *)
(* longitude > 15.500000 and accepted otherwise: 46.999999 is rejected,      *)
(* 47.000000 and 47.000001 are accepted.                                     *)
C15_EnvelopeClosed ==
    pc = "delay" =>
        \A j \in DOMAIN seen :
           WellFormed(seen[j]) =>
              LET p == utm32ToWgs84(seen[j].coords) IN
              /\ (p.lat < 47000000 \/ p.lat > 55500000 \/ p.lng < 5000000 \/ p.lng > 15500000)
                    => RowsOf(j) = {}
              /\ (47000000 <= p.lat /\ p.lat <= 55500000 /\ 5000000 <= p.lng /\ p.lng <= 15500000)
                    => RowsOf(j) # {}
              /\ p.lat = 46999999 => RowsOf(j) = {}
              /\ p.lat \in {47000000, 47000001} => RowsOf(j) # {}

C15_Witness ==
    /\ pc = "delay"
    /\ Len(seen) = 2
    /\ WellFormed(seen[1]) /\ WellFormed(seen[2])
    /\ utm32ToWgs84(seen[1].coords).lat = 47000000
    /\ Len(allBridges) = 2
    /\ allBridges[1].lat = 47000000

(* C16: in every record normalize produces, in either script, the            *)
(* condition score is absent or strictly greater than 0: a source value that *)
(* is no number, zero or negative yields an absent score.                    *)
C16_ScoreAbsentOrPositive ==
    \A k \in DOMAIN allBridges :
       allBridges[k].zustandsnote = NULL \/ allBridges[k].zustandsnote[1] > 0

\* The name the claim gives to a 'bl' value.
TableEntry(v) == IF Len(v) = 1 /\ v[1] \in 1..16 THEN Some(BL_MAP[v[1]]) ELSE NULL

C17_DelayAfterSuccess == lastOut = "ok" => pc \notin {"fetch", "altFetch"}

(* C18: in spatial tiling a tile whose first request returns a non-success   *)
(* status is requested exactly once more, against the alternate feature type *)
(* with the same bounding box; if that request does not succeed either the   *)
(* tile yields no features and the traversal goes on with the next tile.     *)
C18_Step ==
    /\ (pc = "fetch" /\ variant = "tiling" /\ lastOut' = "http") =>
          /\ pc' = "altFetch" /\ attempts' = 1
          /\ TileBox(xi', yi') = TileBox(xi, yi)
          /\ seen' = seen /\ allBridges' = allBridges
    /\ pc = "altFetch" =>
          /\ variant = "tiling" /\ lastOut = "http" /\ attempts = 1
          /\ pc' = "delay" /\ attempts' = 2
          /\ TileBox(xi', yi') = TileBox(xi, yi)
          /\ lastOut' = "ok" => seen' = seen \o TileFeatures(xi, yi)
          /\ lastOut' # "ok" => (seen' = seen /\ allBridges' = allBridges)
    /\ (pc = "delay" /\ variant = "tiling") =>
          /\ pc' \in {"fetch", "drained"}
          /\ <<xi', yi'>> # <<xi, yi>>
          /\ seen' = seen /\ allBridges' = allBridges

C18_AlternateRetryOnce == [][C18_Step]_vars

C18_Witness ==
    /\ variant = "tiling" /\ pc = "delay"
    /\ lastOut = "http" /\ attempts = 2
    /\ xi = 0 /\ yi = 1
    /\ TileFeatures(xi, yi) # <<>>
    /\ Len(seen) > 0 /\ seen = TileFeatures(0, 0)

(* C21: within a run every source request precedes the first upsert call,   *)
(* every upsert call precedes the refresh and the refresh precedes the       *)
(* summary: once loading has started no step issues a source request or      *)
(* touches what the fetch loop keeps, no upsert follows the refresh, and the *)
(* refresh comes only after every batch and before the summary.              *)
C21_Step ==
    /\ pc \in LoadedPcs =>
          /\ pc' \in LoadedPcs
          /\ UNCHANGED <<requested, attempts, seen, lastOut, allBridges, pagVars, tileVars>>
    /\ (seen' # seen \/ attempts' > attempts \/ (lastOut' # lastOut /\ lastOut' # "none")) =>
          /\ pc \notin LoadedPcs
          /\ batchLog = <<>> /\ batchLog' = <<>>
          /\ refreshLog = <<>> /\ summary = NULL
    /\ batchLog' # batchLog =>
          /\ pc = "load"
          /\ refreshLog = <<>> /\ refreshLog' = <<>>
          /\ summary = NULL /\ summary' = NULL
    /\ refreshLog' # refreshLog =>
          /\ Len(batchLog) = NumBatches /\ batchLog' = batchLog
          /\ summary = NULL /\ summary' = NULL
    /\ summary' # summary =>
          /\ Len(refreshLog) = 1 /\ refreshLog' = refreshLog
          /\ batchLog' = batchLog

C21_PhaseOrdering == [][C21_Step]_vars

C21_Witness ==
    /\ pc = "done" /\ summary # NULL
    /\ Len(seen) >= 2 /\ attempts = 0
    /\ Len(batchLog) >= 2 /\ ~batchLog[1].ok
    /\ Len(refreshLog) = 1

\* The batches of the log laid end to end, as slices of the record sequence.
RECURSIVE ConcatBatches(_)
ConcatBatches(log) ==
    IF log = <<>> THEN <<>>
    ELSE Slice(unique, Head(log).at) \o ConcatBatches(Tail(log))

\* The calls whose batch holds the j-th record.
BatchesHolding(j) ==
    {k \in DOMAIN batchLog : batchLog[k].at < j /\ j <= batchLog[k].at + batchLog[k].n}

C23_PaginationComplete ==
    (variant = "pagination" /\ requested) =>
        /\ seen = SubSeq(src, 1, Min(startIndex, Len(src)))
        /\ pc \notin FetchingPcs => seen = src

C23_Witness ==
    /\ variant = "pagination" /\ pc = "drained"
    /\ totalFeatures = NULL
    /\ Len(src) = 3 /\ seen = src
    /\ src[1] # src[2] /\ src[2] # src[3]
    /\ emptyStreak = 3 /\ startIndex = Len(src) + 2 * PAGE_SIZE

(* C24: once the server has reported a positive total T, the client never  *)
(* issues a page request whose start offset is T or more: it never stands    *)
(* before a request (every step from "fetch" issues one, at startIndex) with *)
(* the total known and the offset at or past it.                             *)
C24_NoRequestAtOrPastTotal ==
    (variant = "pagination" /\ pc = "fetch"
        /\ totalFeatures # NULL /\ totalFeatures[1] > 0) =>
        startIndex < totalFeatures[1]

\* The cells of the grid, and what it means for a box to lie in the envelope.
Grid == (0..(tilesX - 1)) \X (0..(tilesY - 1))
InsideEnvelope(b) ==
    /\ GERMANY_BBOX_UTM32.minX <= b.minX /\ b.minX < b.maxX
    /\ b.maxX <= GERMANY_BBOX_UTM32.maxX
    /\ GERMANY_BBOX_UTM32.minY <= b.minY /\ b.minY < b.maxY
    /\ b.maxY <= GERMANY_BBOX_UTM32.maxY

\* The grid has ceil(width / tile) columns and ceil(height / tile) rows.
GridSized ==
    /\ (tilesX - 1) * TILE_SIZE < GERMANY_BBOX_UTM32.maxX - GERMANY_BBOX_UTM32.minX
    /\ GERMANY_BBOX_UTM32.maxX - GERMANY_BBOX_UTM32.minX <= tilesX * TILE_SIZE
    /\ (tilesY - 1) * TILE_SIZE < GERMANY_BBOX_UTM32.maxY - GERMANY_BBOX_UTM32.minY
    /\ GERMANY_BBOX_UTM32.maxY - GERMANY_BBOX_UTM32.minY <= tilesY * TILE_SIZE

\* Every tile's box lies inside the envelope.
BoxesInside == \A c \in Grid : InsideEnvelope(TileBox(c[1], c[2]))

\* The boxes adjoin from the envelope's minimum to its maximum, both ways.
BoxesAdjoin ==
    \A c \in Grid :
       /\ TileBox(c[1], c[2]).minX =
             IF c[1] = 0 THEN GERMANY_BBOX_UTM32.minX
                         ELSE TileBox(c[1] - 1, c[2]).maxX
       /\ TileBox(c[1], c[2]).minY =
             IF c[2] = 0 THEN GERMANY_BBOX_UTM32.minY
                         ELSE TileBox(c[1], c[2] - 1).maxY
       /\ c[1] = tilesX - 1 => TileBox(c[1], c[2]).maxX = GERMANY_BBOX_UTM32.maxX
       /\ c[2] = tilesY - 1 => TileBox(c[1], c[2]).maxY = GERMANY_BBOX_UTM32.maxY

\* Every feature the source may hold inside the envelope lies in a tile.
PointsCovered ==
    \A f \in FeatureSet :
       InBox(f, GERMANY_BBOX_UTM32) =>
          \E c \in Grid : InBox(f, TileBox(c[1], c[2]))

(* C25: spatial tiling traverses a regular grid that covers the envelope:    *)
(* ceil(width / tile) x ceil(height / tile) tiles, each cell requested in    *)
(* exactly one traversal step, column by column; every tile's box lies       *)
(* inside the envelope, and the boxes adjoin from the envelope's minimum to  *)
(* its maximum in both directions, so that every point of the envelope lies  *)
(* in a tile.                                                                *)
C25_GridCoversEnvelope ==
    variant = "tiling" =>
        /\ GridSized /\ BoxesInside /\ BoxesAdjoin /\ PointsCovered
        /\ \A k \in DOMAIN tileLog :
              /\ tileLog[k] = <<(k - 1) \div tilesY, (k - 1) % tilesY>>
              /\ tileLog[k] \in Grid
        /\ \A k, l \in DOMAIN tileLog : tileLog[k] = tileLog[l] => k = l
        /\ (requested /\ pc \notin FetchingPcs) =>
              /\ Len(tileLog) = tilesX * tilesY
              /\ \A c \in Grid : \E k \in DOMAIN tileLog : tileLog[k] = c

C25_Witness ==
    /\ variant = "tiling" /\ pc = "drained"
    /\ Len(tileLog) = 6 /\ tileLog[6] = <<1, 2>>
    /\ TileBox(1, 2).maxX < TileBox(1, 2).minX + TILE_SIZE
    /\ TileBox(1, 2).maxY < TileBox(1, 2).minY + TILE_SIZE
    /\ \E j \in DOMAIN seen : seen[j].coords = P_OUT

\* Is v a number (not NaN)?
IsNumber(v) == v # NOT_A_NUMBER

(* C26: every record normalize returns has a latitude within [47, 55.5] and  *)
(* a longitude within [5, 15.5]; a feature whose two coordinates are no      *)
(* numbers, so that the conversion yields not-a-number, yields no record.    *)
C26_CoordinatesInEnvelope ==
    /\ \A k \in DOMAIN allBridges :
          /\ IsNumber(allBridges[k].lat) /\ IsNumber(allBridges[k].lng)
          /\ 47000000 <= allBridges[k].lat /\ allBridges[k].lat <= 55500000
          /\ 5000000 <= allBridges[k].lng /\ allBridges[k].lng <= 15500000
    /\ (pc = "delay" /\ \E j \in DOMAIN seen : seen[j].coords = P_NAN) =>
          Len(allBridges) < Len(seen)

\* A numeric field of a record is absent or strictly positive.
AbsentOrPositive(v) == v = NULL \/ v[1] > 0

(* C27: in every record normalize produces, year_built, length, width and    *)
(* load_capacity_index are each absent or strictly greater than 0, whatever  *)
(* the source value: missing, text, zero or negative.                        *)
C27_NumericFieldsAbsentOrPositive ==
    \A k \in DOMAIN allBridges :
       /\ AbsentOrPositive(allBridges[k].baujahr)
       /\ AbsentOrPositive(allBridges[k].laenge)
       /\ AbsentOrPositive(allBridges[k].breite)
       /\ AbsentOrPositive(allBridges[k].traglastindex)

\* The counts the claim defines, over the deduplicated records.
WithScore == SelectSeq(unique, LAMBDA b : b.zustandsnote # NULL)
Critical == SelectSeq(unique, LAMBDA b : b.zustandsnote # NULL /\ b.zustandsnote[1] >= 30)
PresentRegions == {b.landkreis : b \in Range(unique)} \ {NULL}

(* C28: the summary is computed over the deduplicated records, whatever      *)
(* batches failed: total, with-score and critical (score >= 3.0) counts,     *)
(* the percentage of critical among with-score, a defined number and 0 when  *)
(* no record has a score, and a distinct-region count that counts only the   *)
(* present region values.                                                    *)
C28_SummaryOverUniqueRecords ==
    pc = "done" =>
        /\ summary # NULL
        /\ summary[1].total = Len(unique)
        /\ summary[1].withNote = Len(WithScore)
        /\ summary[1].critical = Len(Critical)
        /\ summary[1].critical <= summary[1].withNote
        /\ summary[1].withNote <= summary[1].total
        /\ summary[1].pct # NAN
        /\ summary[1].pct =
              IF Len(WithScore) = 0 THEN Some(0)
              ELSE Some(RoundPct(Len(Critical), Len(WithScore)))
        /\ summary[1].landkreise = Cardinality(PresentRegions)

\* The state holds the outcome of the q-th effect run's query.
HoldsOutcomeOf(q) ==
    /\ ~state.loading
    /\ \/ state.error = NULL /\ state.data = Some([query |-> q, filters |-> effects[q].filters])
       \/ state.data = NULL /\ state.error = Some([query |-> q, filters |-> effects[q].filters])

(* C29: useBridges never applies a stale response.  A step changes the       *)
(* hook's state only by starting an effect run or by the response of the     *)
(* latest run while mounted; the response of a superseded run, or one that   *)
(* arrives after the unmount, changes nothing.  Whenever a mounted hook is   *)
(* not loading, and in particular once every response has arrived, in any    *)
(* order, the state holds the result or error of the query for the most      *)
(* recent filters.                                                           *)
C29_Step ==
    /\ (state' # state /\ Len(effects') = Len(effects)) =>
          /\ mounted /\ mounted'
          /\ effects[Len(effects)].answered = 0
          /\ effects'[Len(effects)].answered # 0
    /\ (mounted' /\ ~state'.loading) =>
          /\ effects'[Len(effects')].filters = filters'
          /\ effects'[Len(effects')].answered # 0
          /\ state'.data # NULL => state'.data[1].query = Len(effects')
          /\ state'.error # NULL => state'.error[1].query = Len(effects')
    /\ (mounted' /\ \A q \in DOMAIN effects' : effects'[q].answered # 0) =>
          /\ ~state'.loading
          /\ \/ state'.data = Some([query |-> Len(effects'), filters |-> filters'])
                   /\ state'.error = NULL
             \/ state'.error = Some([query |-> Len(effects'), filters |-> filters'])
                   /\ state'.data = NULL

C29_NoStaleResponse == [][C29_Step]_vars

C29_Witness ==
    /\ mounted /\ Len(effects) = 3
    /\ effects[3].answered = 1 /\ effects[2].answered = 2 /\ effects[1].answered = 3
    /\ effects[1].filters = filters
    /\ HoldsOutcomeOf(3)
    /\ state.data # NULL

(* C30: progressive loading in DataProvider leaves the loading state while  *)
(* the provider stays mounted, whether every page query succeeds or one      *)
(* returns an error: once streamBridges has come to its end in a provider    *)
(* that is still mounted nothing more will happen, so bridgeProgress.done    *)
(* is true by then.                                                          *)
C30_LoadingEnds ==
    (streamPc \in {"ended", "failed"} /\ ~cancelled) => bridgeProgress.done

(* C12: no step of any run deletes a row: every asset_id of the table stays  *)
(* in it, and the row of an asset that the run's record set no longer holds  *)
(* stays as it was stored.                                                   *)
C12_Step ==
    \A r \in store :
       /\ r.bauwerksnummer \in Keys(store')
       /\ r.bauwerksnummer \notin Keys(Range(unique')) => r \in store'

C12_NeverDeletes == [][C12_Step]_vars

C12_Witness ==
    /\ prevRun # NULL /\ prevRun[1].ok
    /\ pc = "done"
    /\ \A k \in DOMAIN batchLog : batchLog[k].ok
    /\ \E r \in Range(prevRun[1].unique) :
          /\ r.bauwerksnummer \notin Keys(Range(unique))
          /\ r.bauwerksnummer \notin Keys(InitialStore)
          /\ r \in store

=============================================================================
